---------------------------- MODULE Spec2Model ----------------------------
(***************************************************************************)
(* A model of ycmd's StoppableWSGIServer (ycmd/wsgi_server.py) and of the  *)
(* completer selection and process orchestration of run_tests.py.          *)
(*                                                                         *)
(*   Spec        the server: Run on the serving thread, Shutdown on a      *)
(*               second thread, interleaved statement by statement         *)
(*   LiveSpec    the same with the fairness of the two threads             *)
(*   OrchSpec    one run of run_tests.py Main                              *)
(*   LookupSpec  CompleterType applied to one command-line word            *)
(***************************************************************************)
EXTENDS Integers, Sequences, FiniteSets, TLC

VARIABLES
  shutdown_requested,  \* StoppableWSGIServer.shutdown_requested
  task_dispatcher,     \* "running" | "shutdown": self.task_dispatcher
  _map,                \* the keys of self._map: the open channels
  servePc,             \* where Run is: "start" | "run" | "except" | "returned" | "raised"
  caught,              \* Run's except clause has caught a select.error
  shutPc,              \* where Shutdown is: "idle" | "dispatcher" | "snapshot" | "closing" | "done"
  snapshot,            \* the channels of list( self._map.values() )
  pending,             \* the channels of that list the for loop has not reached
  closeCalls,          \* closeCalls[c]: how often Shutdown called c.close()
  mainPc,              \* where Main of run_tests.py is
  environ,             \* os.environ: USE_CLANG_COMPLETER and COVERAGE
  known_args,          \* the namespace parse_known_args returned (line 165)
  parsed_ok,           \* ParseArguments returned
  parsed_args,         \* the namespace ParseArguments returned
  extra_args,          \* the arguments passed through to pytest
  warned,              \* the deprecation warning of line 182 was printed
  BASE_PYTEST_ARGS,    \* the module-level list of line 12
  invoked,             \* the processes started so far, each with its exit status
  exit_code,           \* the exit status of run_tests.py, -1 while it runs
  lookup_value,        \* the word CompleterType is applied to
  lookup_result        \* what CompleterType returned or raised

serverVars == <<shutdown_requested, task_dispatcher, _map, servePc, caught,
                shutPc, snapshot, pending, closeCalls>>

orchVars == <<mainPc, environ, known_args, parsed_ok, parsed_args, extra_args,
              warned, BASE_PYTEST_ARGS, invoked, exit_code>>

lookupVars == <<lookup_value, lookup_result>>

vars == <<serverVars, orchVars, lookupVars>>

(***************************************************************************)
(* Channels.  The listening socket is a channel of the map like the        *)
(* accepted connections.                                                   *)
(***************************************************************************)
MaxConn == 2

Listener == 0

Conns == 1 .. MaxConn

Channels == {Listener} \cup Conns

ServerInit ==
  /\ shutdown_requested = FALSE
  /\ task_dispatcher = "running"
  /\ _map = {Listener}
  /\ servePc = "start"
  /\ caught = FALSE
  /\ shutPc = "idle"
  /\ snapshot = {}
  /\ pending = {}
  /\ closeCalls = [c \in Channels |-> 0]

(***************************************************************************)
(* Run, lines 36-41: the notice is printed and self.run() is entered.      *)
(***************************************************************************)
RunStart ==
  /\ servePc = "start"
  /\ servePc' = "run"
  /\ UNCHANGED <<orchVars, lookupVars, shutdown_requested, task_dispatcher, _map, caught,
                 shutPc, snapshot, pending, closeCalls>>

(***************************************************************************)
(* self.run(), the library's loop.  While it runs it accepts connections   *)
(* (as long as the dispatcher takes new work), drops the channels whose    *)
(* connection ended, returns once no channel is left, and may be           *)
(* interrupted by a select.error at any moment.                            *)
(***************************************************************************)
LoopAccept(c) ==
  /\ servePc = "run"
  /\ Listener \in _map
  /\ task_dispatcher = "running"
  /\ c \in Conns \ _map
  /\ _map' = _map \cup {c}
  /\ UNCHANGED <<orchVars, lookupVars, shutdown_requested, task_dispatcher, servePc, caught,
                 shutPc, snapshot, pending, closeCalls>>

LoopCloseChannel(c) ==
  /\ servePc = "run"
  /\ c \in _map \cap Conns
  /\ _map' = _map \ {c}
  /\ UNCHANGED <<orchVars, lookupVars, shutdown_requested, task_dispatcher, servePc, caught,
                 shutPc, snapshot, pending, closeCalls>>

LoopReturn ==
  /\ servePc = "run"
  /\ _map = {}
  /\ servePc' = "returned"
  /\ UNCHANGED <<orchVars, lookupVars, shutdown_requested, task_dispatcher, _map, caught,
                 shutPc, snapshot, pending, closeCalls>>

LoopRaise ==
  /\ servePc = "run"
  /\ servePc' = "except"
  /\ caught' = TRUE
  /\ UNCHANGED <<orchVars, lookupVars, shutdown_requested, task_dispatcher, _map,
                 shutPc, snapshot, pending, closeCalls>>

(***************************************************************************)
(* Run, lines 42-44: the except clause reads shutdown_requested.           *)
(***************************************************************************)
RunExceptAlwaysRaise ==
  /\ servePc = "except"
  /\ servePc' = "raised"
  /\ UNCHANGED <<orchVars, lookupVars, shutdown_requested, task_dispatcher, _map, caught,
                 shutPc, snapshot, pending, closeCalls>>

RunExceptInverted ==
  /\ servePc = "except"
  /\ servePc' = IF shutdown_requested THEN "raised" ELSE "returned"
  /\ UNCHANGED <<orchVars, lookupVars, shutdown_requested, task_dispatcher, _map, caught,
                 shutPc, snapshot, pending, closeCalls>>

RunExcept ==
  /\ servePc = "except"
  /\ servePc' = IF ~shutdown_requested THEN "raised" ELSE "returned"
  /\ UNCHANGED <<orchVars, lookupVars, shutdown_requested, task_dispatcher, _map, caught,
                 shutPc, snapshot, pending, closeCalls>>

(***************************************************************************)
(* Shutdown, one action per statement.  Line 49.                           *)
(***************************************************************************)
ShutdownRequestLate ==
  /\ shutPc = "idle"
  /\ shutPc' = "dispatcher"
  /\ UNCHANGED <<orchVars, lookupVars, shutdown_requested, task_dispatcher, _map, servePc, caught,
                 snapshot, pending, closeCalls>>

ShutdownRequest ==
  /\ shutPc = "idle"
  /\ shutdown_requested' = TRUE
  /\ shutPc' = "dispatcher"
  /\ UNCHANGED <<orchVars, lookupVars, task_dispatcher, _map, servePc, caught,
                 snapshot, pending, closeCalls>>

\* Line 51.
ShutdownDispatcher ==
  /\ shutPc = "dispatcher"
  /\ task_dispatcher' = "shutdown"
  /\ shutPc' = "snapshot"
  /\ UNCHANGED <<orchVars, lookupVars, shutdown_requested, _map, servePc, caught,
                 snapshot, pending, closeCalls>>

\* Line 57, list( self._map.values() ).
ShutdownSnapshot ==
  /\ shutPc = "snapshot"
  /\ snapshot' = _map
  /\ pending' = _map
  /\ shutPc' = "closing"
  /\ UNCHANGED <<orchVars, lookupVars, shutdown_requested, task_dispatcher, _map, servePc, caught,
                 closeCalls>>

\* Lines 57-58, one iteration: channel.close() takes the channel off the map.
ShutdownCloseLive(c) ==
  /\ shutPc = "closing"
  /\ c \in pending \cap _map
  /\ closeCalls' = [closeCalls EXCEPT ![c] = @ + 1]
  /\ _map' = _map \ {c}
  /\ pending' = {}
  /\ UNCHANGED <<orchVars, lookupVars, shutdown_requested, task_dispatcher, servePc, caught,
                 shutPc, snapshot>>

ShutdownClose(c) ==
  /\ shutPc = "closing"
  /\ c \in pending
  /\ closeCalls' = [closeCalls EXCEPT ![c] = @ + 1]
  /\ _map' = _map \ {c}
  /\ pending' = pending \ {c}
  /\ UNCHANGED <<orchVars, lookupVars, shutdown_requested, task_dispatcher, servePc, caught,
                 shutPc, snapshot>>

\* Line 57, the list is exhausted: Shutdown returns.
ShutdownReturn ==
  /\ shutPc = "closing"
  /\ pending = {}
  /\ shutPc' = "done"
  /\ UNCHANGED <<orchVars, lookupVars, shutdown_requested, task_dispatcher, _map, servePc, caught,
                 snapshot, pending, closeCalls>>

ServerNext ==
  \/ RunStart
  \/ \E c \in Conns : LoopAccept(c)
  \/ \E c \in Conns : LoopCloseChannel(c)
  \/ LoopReturn
  \/ LoopRaise
  \/ RunExcept
  \/ ShutdownRequest
  \/ ShutdownDispatcher
  \/ ShutdownSnapshot
  \/ \E c \in Channels : ShutdownClose(c)
  \/ ShutdownReturn

(***************************************************************************)
(* run_tests.py: the registry of completers, lines 64-113.                 *)
(***************************************************************************)
Range(s) == {s[i] : i \in DOMAIN s}

SIMPLE_COMPLETERS == <<"clangd", "rust", "go">>

EXPLICIT_COMPLETERS ==
  ("cfamily" :> [build |-> <<"--clang-completer">>,
                 test |-> <<"--ignore=ycmd/tests/clang">>,
                 aliases |-> <<"c", "cpp", "c++", "objc", "clang">>])
  @@ ("cs" :> [build |-> <<"--cs-completer">>,
               test |-> <<"--ignore=ycmd/tests/cs">>,
               aliases |-> <<"omnisharp", "csharp", "c#">>])
  @@ ("javascript" :> [build |-> <<"--js-completer">>,
                       test |-> <<"--ignore=ycmd/tests/tern">>,
                       aliases |-> <<"js", "tern">>])
  @@ ("typescript" :> [build |-> <<"--ts-completer">>,
                       test |-> <<"--ignore=ycmd/tests/javascript",
                                  "--ignore=ycmd/tests/typescript">>,
                       aliases |-> <<"ts">>])
  @@ ("python" :> [build |-> <<>>,
                   test |-> <<"--ignore=ycmd/tests/python">>,
                   aliases |-> <<"jedi", "jedihttp">>])
  @@ ("java" :> [build |-> <<"--java-completer">>,
                 test |-> <<"--ignore=ycmd/tests/java">>,
                 aliases |-> <<"jdt">>])

EXPLICIT_KEYS == <<"cfamily", "cs", "javascript", "typescript", "python", "java">>

\* Lines 109-113: a simple completer gets a build and a test entry, no aliases.
SimpleEntry(completer) ==
  [build |-> <<"--" \o completer \o "-completer">>,
   test |-> <<"--ignore=ycmd/tests/" \o completer>>]

COMPLETERS ==
  [completer \in Range(SIMPLE_COMPLETERS) |-> SimpleEntry(completer)]
  @@ EXPLICIT_COMPLETERS

\* The iteration order of the dict: insertion order.
IsNewKey(completer) == completer \notin Range(EXPLICIT_KEYS)

COMPLETER_KEYS == EXPLICIT_KEYS \o SelectSeq(SIMPLE_COMPLETERS, IsNewKey)

(***************************************************************************)
(* str.lower() on a word given as its sequence of characters; the result   *)
(* is the string the registry is keyed by.                                 *)
(***************************************************************************)
UPPER == <<"A", "B", "C", "D", "E", "F", "G", "H", "I", "J", "K", "L", "M",
           "N", "O", "P", "Q", "R", "S", "T", "U", "V", "W", "X", "Y", "Z">>

LOWER == <<"a", "b", "c", "d", "e", "f", "g", "h", "i", "j", "k", "l", "m",
           "n", "o", "p", "q", "r", "s", "t", "u", "v", "w", "x", "y", "z">>

LowerChar(ch) ==
  IF \E i \in DOMAIN UPPER : UPPER[i] = ch
  THEN LOWER[CHOOSE i \in DOMAIN UPPER : UPPER[i] = ch]
  ELSE ch

RECURSIVE lower(_)
lower(value) ==
  IF value = <<>> THEN "" ELSE LowerChar(Head(value)) \o lower(Tail(value))

(***************************************************************************)
(* CompleterType, lines 116-128.  The comprehension of lines 121-122       *)
(* reads v[ 'aliases' ] of every entry in iteration order, a later entry   *)
(* overwriting an alias of an earlier one; an entry without that key       *)
(* raises KeyError.                                                        *)
(***************************************************************************)
Returned(name) == [kind |-> "returned", value |-> name]

Raised(exception) == [kind |-> "raised", value |-> exception]

PutAll(dict, keys, v) ==
  [a \in DOMAIN dict \cup keys |-> IF a \in keys THEN v ELSE dict[a]]

RECURSIVE AliasesToCompleter(_, _)
AliasesToCompleter(keys, dict) ==
  IF keys = <<>> THEN Returned(dict)
  ELSE LET k == Head(keys)
           v == COMPLETERS[k]
       IN  IF "aliases" \notin DOMAIN v THEN Raised("KeyError")
           ELSE AliasesToCompleter(Tail(keys), PutAll(dict, Range(v.aliases), k))

CompleterType(value) ==
  LET v == lower(value)
  IN  IF v \in DOMAIN COMPLETERS THEN Returned(v)
      ELSE LET aliases_to_completer == AliasesToCompleter(COMPLETER_KEYS, << >>)
           IN  IF aliases_to_completer.kind = "raised" THEN aliases_to_completer
               ELSE IF v \in DOMAIN aliases_to_completer.value
                    THEN Returned(aliases_to_completer.value[v])
                    ELSE Raised("ArgumentTypeError")

(***************************************************************************)
(* The words CompleterType is tried on: every word of at most MaxWordLen   *)
(* characters over ALPHABET, which spells cs, go, the aliases c, c# and    *)
(* js in either case, and words of no completer.                           *)
(***************************************************************************)
MaxWordLen == 2

ALPHABET == {"c", "C", "s", "S", "g", "G", "o", "O", "j", "#"}

Words == UNION {[1 .. n -> ALPHABET] : n \in 0 .. MaxWordLen}

NotCalled == [kind |-> "pending", value |-> ""]

LookupInit ==
  /\ lookup_value \in Words
  /\ lookup_result = NotCalled

LookupIdle ==
  /\ lookup_value = <<>>
  /\ lookup_result = NotCalled

Lookup ==
  /\ lookup_result = NotCalled
  /\ lookup_result' = CompleterType(lookup_value)
  /\ UNCHANGED <<serverVars, orchVars, lookup_value>>

(***************************************************************************)
(* run_tests.py: the command line and the environment of one run.          *)
(* An option that was not given is None; a nargs = '*' option that was     *)
(* given holds the list of its converted words.                            *)
(***************************************************************************)
None == [none |-> TRUE, items |-> << >>]

Some(list) == [none |-> FALSE, items |-> list]

MaxWords == 2

RAW_WORDS ==
  { <<"c", "f", "a", "m", "i", "l", "y">>,
    <<"C", "F", "a", "m", "i", "l", "y">>,
    <<"g", "o">>,
    <<"T", "y", "p", "e", "S", "c", "r", "i", "p", "t">>,
    <<"c">>,
    <<"f", "o", "o">> }

WordLists == UNION {[1 .. n -> RAW_WORDS] : n \in 0 .. MaxWords}

GROUP == {"--no-clang-completer", "--no-completers", "--completers"}

ENV_NAMES == {"USE_CLANG_COMPLETER", "COVERAGE"}

ENV_VALUES == {"true", "false", "1"}

Environs == UNION {[names -> ENV_VALUES] : names \in SUBSET ENV_NAMES}

ExtraArgs == {<< >>, <<"ycmd/tests/misc_handlers_test.py">>}

AllNames == DOMAIN COMPLETERS

(***************************************************************************)
(* FixupCompleters, lines 175-192.  Lines 176-184 choose the set from the  *)
(* command line, lines 186-190 apply USE_CLANG_COMPLETER.  The list of     *)
(* line 192 is used for membership only and is kept as the set.            *)
(***************************************************************************)
SelectionStepLegacyKept(args) ==
  IF ~args.completers.none
  THEN [completers |-> Range(args.completers.items), warned |-> FALSE]
  ELSE IF ~args.no_completers.none
  THEN [completers |-> AllNames \ Range(args.no_completers.items), warned |-> FALSE]
  ELSE IF args.no_clang_completer
  THEN [completers |-> AllNames, warned |-> TRUE]
  ELSE [completers |-> AllNames, warned |-> FALSE]

SelectionStep(args) ==
  IF ~args.completers.none
  THEN [completers |-> Range(args.completers.items), warned |-> FALSE]
  ELSE IF ~args.no_completers.none
  THEN [completers |-> AllNames \ Range(args.no_completers.items), warned |-> FALSE]
  ELSE IF args.no_clang_completer
  THEN [completers |-> AllNames \ {"cfamily"}, warned |-> TRUE]
  ELSE [completers |-> AllNames, warned |-> FALSE]

EnvStepTrueOnly(completers, env) ==
  IF "USE_CLANG_COMPLETER" \in DOMAIN env
  THEN IF env["USE_CLANG_COMPLETER"] = "true"
       THEN completers \cup {"cfamily"}
       ELSE completers \ {"cfamily"}
  ELSE completers

EnvStep(completers, env) ==
  IF "USE_CLANG_COMPLETER" \in DOMAIN env
  THEN IF env["USE_CLANG_COMPLETER"] = "false"
       THEN completers \ {"cfamily"}
       ELSE completers \cup {"cfamily"}
  ELSE completers

FixupCompletersEnvFirst(args, env) ==
  LET early == EnvStep(AllNames, env)
      chosen == SelectionStep(args)
  IN  [completers |-> IF ~args.completers.none THEN chosen.completers
                      ELSE chosen.completers \cap early,
       warned |-> chosen.warned]

FixupCompleters(args, env) ==
  LET chosen == SelectionStep(args)
  IN  [completers |-> EnvStep(chosen.completers, env),
       warned |-> chosen.warned]

(***************************************************************************)
(* ParseArguments, lines 131-172.  argparse converts the words of          *)
(* --completers and --no-completers with CompleterType: a KeyError leaves  *)
(* the script with a traceback (status 1), an ArgumentTypeError and two    *)
(* options of the mutually exclusive group end in parser.error (status 2). *)
(* When two list options are given the model gives both the same words.    *)
(***************************************************************************)
NoArgs ==
  [no_clang_completer |-> FALSE, no_completers |-> None, completers |-> None,
   skip_build |-> FALSE, coverage |-> FALSE, no_flake8 |-> FALSE,
   dump_path |-> FALSE, valgrind |-> FALSE]

ConvertedWord == [word \in RAW_WORDS |-> CompleterType(word)]

Converted(words) == [i \in DOMAIN words |-> ConvertedWord[words[i]]]

Values(converted) == [i \in DOMAIN converted |-> converted[i].value]

ParseFails(status) ==
  /\ mainPc' = "exited"
  /\ exit_code' = status
  /\ UNCHANGED <<known_args, parsed_ok, parsed_args, extra_args, warned>>

ParseArguments ==
  /\ mainPc = "parse"
  /\ \E given \in SUBSET GROUP, words \in WordLists, env \in Environs,
        extra \in ExtraArgs, skip_build \in BOOLEAN, coverage \in BOOLEAN,
        no_flake8 \in BOOLEAN, dump_path \in BOOLEAN, valgrind \in BOOLEAN :
       LET converted == Converted(words)
           takesWords == given \cap {"--no-completers", "--completers"} # {}
           failed == {i \in DOMAIN words : converted[i].kind = "raised"}
           list == IF takesWords THEN Some(Values(converted)) ELSE None
           known == [no_clang_completer |-> "--no-clang-completer" \in given,
                     no_completers |-> IF "--no-completers" \in given THEN list ELSE None,
                     completers |-> IF "--completers" \in given THEN list ELSE None,
                     skip_build |-> skip_build, coverage |-> coverage,
                     no_flake8 |-> no_flake8, dump_path |-> dump_path,
                     valgrind |-> valgrind]
           fixed == FixupCompleters(known, env)
       IN  /\ takesWords \/ words = << >>
           /\ environ' = env
           /\ IF takesWords /\ failed # {}
              THEN LET first == CHOOSE i \in failed : \A j \in failed : i <= j
                   IN  ParseFails(IF converted[first].value = "KeyError" THEN 1 ELSE 2)
              ELSE IF Cardinality(given) > 1
              THEN ParseFails(2)
              ELSE /\ known_args' = known
                   /\ parsed_args' =
                        [known EXCEPT
                           !.completers = fixed.completers,
                           !.coverage = IF "COVERAGE" \in DOMAIN env
                                        THEN env["COVERAGE"] = "true"
                                        ELSE known.coverage]
                   /\ warned' = fixed.warned
                   /\ extra_args' = extra
                   /\ parsed_ok' = TRUE
                   /\ mainPc' = "main"
                   /\ UNCHANGED exit_code
  /\ UNCHANGED <<serverVars, lookupVars, BASE_PYTEST_ARGS, invoked>>

(***************************************************************************)
(* subprocess.check_call: the process runs to its end and a nonzero exit   *)
(* status raises CalledProcessError, which nothing in run_tests.py         *)
(* catches: the script ends with status 1.  After the last step Main       *)
(* returns and the script ends with status 0.                              *)
(***************************************************************************)
MaxExit == 2

CheckCallIgnoring(cmd, args, status, next) ==
  /\ invoked' = Append(invoked, [cmd |-> cmd, args |-> args, status |-> status])
  /\ mainPc' = next
  /\ exit_code' = IF next = "exited" THEN 0 ELSE exit_code

CheckCall(cmd, args, status, next) ==
  /\ invoked' = Append(invoked, [cmd |-> cmd, args |-> args, status |-> status])
  /\ IF status # 0
     THEN mainPc' = "exited" /\ exit_code' = 1
     ELSE mainPc' = next /\ exit_code' = IF next = "exited" THEN 0 ELSE exit_code

Skip(next) ==
  /\ mainPc' = next
  /\ UNCHANGED <<invoked, exit_code>>

Die ==
  /\ mainPc' = "exited"
  /\ exit_code' = 1
  /\ UNCHANGED invoked

others == <<serverVars, lookupVars, environ, known_args, parsed_ok,
            parsed_args, extra_args, warned>>

\* Main, lines 360-367.
MainStart ==
  /\ mainPc = "main"
  /\ IF parsed_args.dump_path
     THEN mainPc' = "exited" /\ exit_code' = 0
     ELSE /\ mainPc' = IF ~parsed_args.skip_build THEN "find_npm" ELSE "flake8"
          /\ UNCHANGED exit_code
  /\ UNCHANGED <<others, BASE_PYTEST_ARGS, invoked>>

\* SetUpGenericLSPCompleter, lines 331-338; FindExecutableOrDie, lines 320-328.
FindNpm ==
  /\ mainPc = "find_npm"
  /\ \E found \in BOOLEAN : IF found THEN Skip("npm_install") ELSE Die
  /\ UNCHANGED <<others, BASE_PYTEST_ARGS>>

NpmInstall ==
  /\ mainPc = "npm_install"
  /\ \E status \in 0 .. MaxExit :
       CheckCall("npm install", <<"npm", "install">>, status, "npm_compile")
  /\ UNCHANGED <<others, BASE_PYTEST_ARGS>>

NpmCompile ==
  /\ mainPc = "npm_compile"
  /\ \E status \in 0 .. MaxExit :
       CheckCall("npm run compile", <<"npm", "run", "compile">>, status, "java_setup")
  /\ UNCHANGED <<others, BASE_PYTEST_ARGS>>

\* SetUpJavaCompleter, lines 341-355: the download may fail.
SetUpJavaCompleter ==
  /\ mainPc = "java_setup"
  /\ \E downloaded \in BOOLEAN : IF downloaded THEN Skip("flake8") ELSE Die
  /\ UNCHANGED <<others, BASE_PYTEST_ARGS>>

\* Main, lines 368-369; RunFlake8, lines 49-57.
RunFlake8 ==
  /\ mainPc = "flake8"
  /\ IF parsed_args.no_flake8
     THEN Skip("build")
     ELSE \E status \in 0 .. MaxExit :
            CheckCall("flake8", <<"python", "-m", "flake8", "ycmd">>, status, "build")
  /\ UNCHANGED <<others, BASE_PYTEST_ARGS>>

(***************************************************************************)
(* BuildYcmdLibs, lines 195-225.  msvc keeps its default, 16.              *)
(***************************************************************************)
RECURSIVE FlagsOf(_, _, _, _)
FlagsOf(keys, completers, field, selected) ==
  IF keys = << >> THEN << >>
  ELSE (IF (Head(keys) \in completers) = selected
        THEN COMPLETERS[Head(keys)][field] ELSE << >>)
       \o FlagsOf(Tail(keys), completers, field, selected)

BuildCmd(args) ==
  <<"python", "build.py", "--core-tests">>
  \o FlagsOf(COMPLETER_KEYS, args.completers, "build", TRUE)
  \o <<"--msvc", "16">>
  \o (IF args.coverage THEN <<"--enable-coverage", "--build-dir", ".build">> ELSE << >>)

BuildYcmdLibs ==
  /\ mainPc = "build"
  /\ IF parsed_args.skip_build
     THEN Skip("test")
     ELSE \E status \in 0 .. MaxExit :
            CheckCall("build", BuildCmd(parsed_args), status, "test")
  /\ UNCHANGED <<others, BASE_PYTEST_ARGS>>

(***************************************************************************)
(* PytestTests, lines 259-290.  pytests_args is the list BASE_PYTEST_ARGS  *)
(* itself, which the function extends in place.                            *)
(***************************************************************************)
PytestArgsOfSelected(base, args, extra) ==
  base
  \o FlagsOf(COMPLETER_KEYS, args.completers, "test", TRUE)
  \o (IF args.coverage
      THEN <<"--ignore=ycmd/tests/python/testdata", "--cov=ycmd">> ELSE << >>)
  \o (IF extra # << >> THEN extra ELSE <<"ycmd">>)

PytestArgs(base, args, extra) ==
  base
  \o FlagsOf(COMPLETER_KEYS, args.completers, "test", FALSE)
  \o (IF args.coverage
      THEN <<"--ignore=ycmd/tests/python/testdata", "--cov=ycmd">> ELSE << >>)
  \o (IF extra # << >> THEN extra ELSE <<"ycmd">>)

PytestTests ==
  /\ mainPc = "test"
  /\ ~parsed_args.valgrind
  /\ LET pytests_args == PytestArgs(BASE_PYTEST_ARGS, parsed_args, extra_args)
     IN  /\ BASE_PYTEST_ARGS' = pytests_args
         /\ \E status \in 0 .. MaxExit :
              CheckCall("pytest", <<"python", "-m", "pytest">> \o pytests_args,
                        status, "exited")
  /\ UNCHANGED others

\* PytestValgrind, lines 228-256.
ValgrindArgs(base, extra) ==
  base
  \o (IF extra # << >> THEN extra
      ELSE <<"ycmd/tests/bindings/*_test.py", "ycmd/tests/clang/*_test.py",
             "ycmd/tests/*_test.py", "-m", "not valgrind_skip">>)

PytestValgrind ==
  /\ mainPc = "test"
  /\ parsed_args.valgrind
  /\ LET pytests_args == ValgrindArgs(BASE_PYTEST_ARGS, extra_args)
     IN  /\ BASE_PYTEST_ARGS' = pytests_args
         /\ \E status \in 0 .. MaxExit :
              CheckCall("valgrind",
                        <<"valgrind", "--error-exitcode=1", "python", "-m", "pytest">>
                          \o pytests_args,
                        status, "exited")
  /\ UNCHANGED others

OrchInit ==
  /\ mainPc = "parse"
  /\ environ = << >>
  /\ known_args = NoArgs
  /\ parsed_ok = FALSE
  /\ parsed_args = NoArgs
  /\ extra_args = << >>
  /\ warned = FALSE
  /\ BASE_PYTEST_ARGS = <<"-v", "--color=yes">>
  /\ invoked = << >>
  /\ exit_code = -1

OrchNext ==
  \/ ParseArguments
  \/ MainStart
  \/ FindNpm
  \/ NpmInstall
  \/ NpmCompile
  \/ SetUpJavaCompleter
  \/ RunFlake8
  \/ BuildYcmdLibs
  \/ PytestTests
  \/ PytestValgrind

Init == ServerInit /\ OrchInit /\ LookupIdle

Next == ServerNext

Spec == Init /\ [][Next]_vars

OrchSpecInit == ServerInit /\ OrchInit /\ LookupIdle

OrchSpec == OrchSpecInit /\ [][OrchNext]_vars

LookupSpecInit == ServerInit /\ OrchInit /\ LookupInit

LookupSpec == LookupSpecInit /\ [][Lookup]_vars

(***************************************************************************)
(* The two threads keep running: a started Shutdown executes its next      *)
(* statement, the except clause of Run completes, and the loop of          *)
(* self.run() leaves once no channel is left.  Nothing obliges Shutdown to *)
(* be called, a connection to arrive or end, or an interrupt to be raised. *)
(***************************************************************************)
Fairness ==
  /\ WF_vars(ShutdownDispatcher)
  /\ WF_vars(ShutdownSnapshot)
  /\ WF_vars(\E c \in Channels : ShutdownClose(c))
  /\ WF_vars(ShutdownReturn)
  /\ WF_vars(LoopReturn)
  /\ WF_vars(RunExcept)

LiveSpec == Init /\ [][Next]_vars /\ Fairness

(***************************************************************************)
(* ServerState of the lifecycle: Stopped is Shutdown having returned, with *)
(* the request recorded, the dispatcher halted and no channel left open.   *)
(***************************************************************************)
Stopped ==
  /\ shutdown_requested
  /\ task_dispatcher = "shutdown"
  /\ shutPc = "done"
  /\ _map = {}

(***************************************************************************)
(* C1: an interrupt caught by Run is classified by shutdown_requested as   *)
(* it is when the except clause runs: requested, Run returns normally; not *)
(* requested, Run raises.  Run raises in no other way.                     *)
(***************************************************************************)
C1_InterruptClassifiedByState ==
  /\ [][(servePc = "except" /\ servePc' # "except")
          => servePc' = (IF shutdown_requested THEN "returned" ELSE "raised")]_vars
  /\ [](servePc = "raised" => caught)

C1_Witness ==
  /\ caught
  /\ servePc = "returned"
  /\ shutdown_requested
  /\ shutPc = "closing"

C9_RequestRecordedFirst ==
  /\ (task_dispatcher = "shutdown" \/ \E c \in Channels : closeCalls[c] > 0)
        => shutdown_requested
  /\ (shutPc \in {"closing", "done"} \/ \E c \in Channels : closeCalls[c] > 0)
        => task_dispatcher = "shutdown"

C9_Witness ==
  /\ closeCalls[Listener] = 1
  /\ servePc = "except"
  /\ shutPc = "closing"

(***************************************************************************)
(* C10: the closing loop runs over the snapshot: the snapshot is the map   *)
(* as it is when line 57 is reached, every channel of it the loop has      *)
(* passed has had close() called once by Shutdown, no other channel has,   *)
(* whatever the serve loop removed from the live map meanwhile, and the    *)
(* loop ends.                                                              *)
(***************************************************************************)
C10_Inv ==
  /\ shutPc \in {"closing", "done"} =>
        /\ pending \subseteq snapshot
        /\ \A c \in snapshot \ pending : closeCalls[c] = 1
        /\ \A c \in Channels \ (snapshot \ pending) : closeCalls[c] = 0
  /\ shutPc = "done" => \A c \in snapshot : closeCalls[c] = 1

C10_SnapshotClosedOnce ==
  /\ []C10_Inv
  /\ [][(shutPc = "snapshot" /\ shutPc' = "closing") => snapshot' = _map]_vars
  /\ (shutPc = "closing") ~> (shutPc = "done")

C10_Witness ==
  /\ shutPc = "closing"
  /\ \E c \in pending : c \notin _map
  /\ \E c \in snapshot \ pending : closeCalls[c] = 1

(***************************************************************************)
(* What the command line alone selects (lines 176-184), and the reading of *)
(* USE_CLANG_COMPLETER (lines 186-190).                                    *)
(***************************************************************************)
CliSelection == SelectionStep(known_args).completers

OverridePresent == "USE_CLANG_COMPLETER" \in DOMAIN environ

ForceDisable == OverridePresent /\ environ["USE_CLANG_COMPLETER"] = "false"

ForceEnable == OverridePresent /\ environ["USE_CLANG_COMPLETER"] # "false"

(***************************************************************************)
(* C3: whenever USE_CLANG_COMPLETER is set it alone decides whether        *)
(* cfamily is in the set ParseArguments returns, whatever --completers,    *)
(* --no-completers or --no-clang-completer said, and every other completer *)
(* is in the set exactly when the command line selects it.                 *)
(***************************************************************************)
C3_OverrideDecidesCfamily ==
  (parsed_ok /\ OverridePresent) =>
    /\ ForceEnable => "cfamily" \in parsed_args.completers
    /\ ForceDisable => "cfamily" \notin parsed_args.completers
    /\ parsed_args.completers \ {"cfamily"} = CliSelection \ {"cfamily"}

C3_Witness ==
  /\ parsed_ok
  /\ known_args.completers = Some(<<"go">>)
  /\ ForceEnable
  /\ parsed_args.completers = {"go", "cfamily"}

(***************************************************************************)
(* C4: when --no-clang-completer is given and USE_CLANG_COMPLETER is not   *)
(* set, the returned set does not contain cfamily and the deprecation      *)
(* warning was printed; the warning is printed for that flag only.         *)
(***************************************************************************)
C4_LegacyFlagRemovesCfamily ==
  /\ (parsed_ok /\ known_args.no_clang_completer /\ ~OverridePresent) =>
       ("cfamily" \notin parsed_args.completers /\ warned)
  /\ warned => (parsed_ok /\ known_args.no_clang_completer)

C4_Witness ==
  /\ parsed_ok
  /\ known_args.no_clang_completer
  /\ ~OverridePresent
  /\ warned
  /\ parsed_args.completers = AllNames \ {"cfamily"}

(***************************************************************************)
(* C5: CompleterType returns the canonical name of every word that equals, *)
(* ignoring case, a canonical name or an alias of the registry, and raises *)
(* ArgumentTypeError, nothing else, for every other word.                  *)
(***************************************************************************)
RegisteredAliases(completer) ==
  IF "aliases" \in DOMAIN COMPLETERS[completer]
  THEN Range(COMPLETERS[completer].aliases) ELSE {}

Named(word) ==
  {completer \in AllNames :
     lower(word) = completer \/ lower(word) \in RegisteredAliases(completer)}

C5_LookupTotal ==
  lookup_result # NotCalled =>
    IF Named(lookup_value) # {}
    THEN /\ lookup_result.kind = "returned"
         /\ lookup_result.value \in Named(lookup_value)
    ELSE lookup_result = Raised("ArgumentTypeError")

(***************************************************************************)
(* C6: the test-exclude flags in the arguments PytestTests passes to       *)
(* pytest are those of the completers that are not selected, each once, in *)
(* the iteration order of the registry.                                    *)
(***************************************************************************)
TestExcludeFlags == UNION {Range(COMPLETERS[k].test) : k \in AllNames}

IsTestExcludeFlag(arg) == arg \in TestExcludeFlags

RECURSIVE ExcludedFlags(_, _)
ExcludedFlags(keys, selection) ==
  IF keys = << >> THEN << >>
  ELSE LET rest == ExcludedFlags(Tail(keys), selection)
       IN  IF Head(keys) \in AllNames \ selection
           THEN COMPLETERS[Head(keys)].test \o rest
           ELSE rest

C6_ExcludesAreComplement ==
  \A i \in DOMAIN invoked :
    invoked[i].cmd = "pytest" =>
      SelectSeq(invoked[i].args, IsTestExcludeFlag)
        = ExcludedFlags(COMPLETER_KEYS, parsed_args.completers)

C6_Witness ==
  /\ \E i \in DOMAIN invoked : invoked[i].cmd = "pytest"
  /\ parsed_args.completers = {"go", "cfamily"}
  /\ parsed_args.coverage

(***************************************************************************)
(* C7: the processes run one after another in the order npm install, npm   *)
(* run compile, flake8, build, test, none twice; a nonzero exit status     *)
(* ends the run at once with a nonzero status and nothing is started after *)
(* it; the run ends with status 0 only if every process it started exited  *)
(* with 0.                                                                 *)
(***************************************************************************)
Rank(cmd) ==
  CASE cmd = "npm install" -> 1
    [] cmd = "npm run compile" -> 2
    [] cmd = "flake8" -> 3
    [] cmd = "build" -> 4
    [] cmd \in {"pytest", "valgrind"} -> 5

C7_FailureAborts ==
  /\ \A i, j \in DOMAIN invoked : i < j =>
       /\ invoked[i].status = 0
       /\ Rank(invoked[i].cmd) < Rank(invoked[j].cmd)
  /\ (\E i \in DOMAIN invoked : invoked[i].status # 0) =>
       (mainPc = "exited" /\ exit_code > 0)
  /\ exit_code = 0 => \A i \in DOMAIN invoked : invoked[i].status = 0

C7_Witness ==
  /\ Len(invoked) = 4
  /\ invoked[4].cmd = "build"
  /\ invoked[4].status # 0
  /\ mainPc = "exited"
  /\ exit_code = 1

(***************************************************************************)
(* C8 as stated: USE_CLANG_COMPLETER set to "true" adds cfamily, set to    *)
(* anything else removes it, unset leaves the command line's selection.    *)
(***************************************************************************)
C8_TrueOrOther ==
  parsed_ok =>
    parsed_args.completers =
      IF ~OverridePresent THEN CliSelection
      ELSE IF environ["USE_CLANG_COMPLETER"] = "true"
      THEN CliSelection \cup {"cfamily"}
      ELSE CliSelection \ {"cfamily"}

(***************************************************************************)
(* C8 amended: USE_CLANG_COMPLETER set to "false" removes cfamily, set to  *)
(* anything else ("true" included) adds it, unset leaves the command       *)
(* line's selection.                                                       *)
(***************************************************************************)
C8_FalseOrOther ==
  parsed_ok =>
    parsed_args.completers =
      IF ~OverridePresent THEN CliSelection
      ELSE IF environ["USE_CLANG_COMPLETER"] = "false"
      THEN CliSelection \ {"cfamily"}
      ELSE CliSelection \cup {"cfamily"}

C8_Witness ==
  /\ parsed_ok
  /\ OverridePresent
  /\ environ["USE_CLANG_COMPLETER"] = "1"
  /\ "cfamily" \notin CliSelection
  /\ "cfamily" \in parsed_args.completers

=============================================================================
